---- MODULE Spec2Model ----
(***************************************************************************)
(* LotteryToken (src/src/lib.rs): an ERC-20 token whose mint amount is     *)
(* decided by a Supra VRF callback.  mint_to asks the router for           *)
(* randomness and records nonce -> receiver; the router later calls        *)
(* mint_random_amount(nonce, rng_list), which mints to the recorded        *)
(* receiver.  Every entry point is one transaction: it runs to completion, *)
(* and a returned Err or a panic reverts every storage write and log of    *)
(* that transaction.                                                       *)
(***************************************************************************)
EXTENDS Integers, Sequences, FiniteSets, TLC

\* ------------------------------------------------------------------ bounds
MaxNonce == 1       \* the router hands out nonces 0..MaxNonce
MaxCalls == 2       \* mint_to transactions in one behaviour
MaxLen   == 1       \* longest rng_list a caller passes
MaxTokenCalls == 1  \* mint_to transactions in one behaviour of SpecToken
MaxEvents == 3      \* logs kept in one behaviour

\* --------------------------------------------------------------- constants
U16Modulus   == 65536    \* 10_u16: the arithmetic of line 138 is u16
RangeTokens  == 1000     \* 1000 * ...
RangeBase    == 10       \* 10_u16
RangeDecimals == 18      \* .pow(18)

\* ----------------------------------------------------------------- domains
ZERO == "0x0"                                  \* Address::ZERO, the map default
Address == {ZERO, "0xA", "0xB"}
Callers == Address \ {ZERO}                    \* msg_sender of a transaction
\* The deployment: the arguments the constructor is called with.
SubscriptionManager == "0xA"
SupraRouter == "0xB"
Nonce == 0..MaxNonce
Raw == {0, 12345}                              \* raw random values delivered
Amounts == {0, 1}                              \* values passed to the ERC-20 calls
RngLists == UNION {[1..n -> Raw] : n \in 0..MaxLen}

\* The selector under which the router calls back: the public method
\* mint_random_amount(nonce: U256, rng_list: Vec<U256>) in its ABI spelling.
CallbackSignature == "mintRandomAmount(uint256,uint256[])"

VARIABLES
    subscription_manager,   \* StorageAddress
    supra_router,           \* StorageAddress
    mint_address,           \* StorageMap<U256, StorageAddress>
    balances,               \* erc20 balances
    total_supply,           \* erc20 total supply
    allowances,             \* erc20 allowances [owner][spender]
    events,                 \* the logs emitted by committed transactions
    router_calls,           \* the generateRequest calls issued, with the router's answers
    lastCall                \* the last transaction: entry point, arguments, result

vars == <<subscription_manager, supra_router, mint_address, balances,
          total_supply, allowances, events, router_calls, lastCall>>

storage == <<subscription_manager, supra_router, mint_address, balances,
             total_supply, allowances>>

\* ------------------------------------------------------------ u16 arithmetic
\* b.pow(e) in u16: val is the wrapped result (overflow-checks off), ovf says
\* that a multiplication overflowed (a panic with overflow-checks on).
RECURSIVE PowU16(_, _)
PowU16(b, e) ==
    IF e = 0 THEN [val |-> 1, ovf |-> FALSE]
    ELSE LET p == PowU16(b, e - 1)
         IN  [val |-> (p.val * b) % U16Modulus,
              ovf |-> p.ovf \/ p.val * b >= U16Modulus]

\* 1000 * 10_u16.pow(18), both operands u16.
mint_range ==
    LET p == PowU16(RangeBase, RangeDecimals)
        m == RangeTokens * p.val
    IN  [val |-> m % U16Modulus, ovf |-> p.ovf \/ m >= U16Modulus]

\* ------------------------------------------------------------------ results
Ok == "Ok"
PanicIndex == "panic: index out of bounds"
PanicOverflow == "panic: attempt to multiply with overflow"
PanicDivZero == "panic: division by zero"
IsPanic(r) == r \in {PanicIndex, PanicOverflow, PanicDivZero}

Call(op, caller, to, nonce, rng_list, result) ==
    [op |-> op, caller |-> caller, to |-> to, nonce |-> nonce,
     rng_list |-> rng_list, result |-> result]

\* ---------------------------------------------------------------- constructor
\* constructor -> _init: both addresses are stored as given.
_init(sm, sr) ==
    /\ subscription_manager = sm
    /\ supra_router = sr

Init ==
    /\ _init(SubscriptionManager, SupraRouter)
    /\ mint_address = [n \in Nonce |-> ZERO]
    /\ balances = [a \in Address |-> 0]
    /\ total_supply = 0
    /\ allowances = [o \in Address |-> [s \in Address |-> 0]]
    /\ events = <<>>
    /\ router_calls = <<>>
    /\ lastCall = Call("constructor", ZERO, ZERO, 0, <<>>, Ok)

\* --------------------------------------------------------------------- logs
MintRequested(nonce, to) == [name |-> "MintRequested", nonce |-> nonce, to |-> to]
Minted(nonce, to, amount) ==
    [name |-> "Minted", nonce |-> nonce, to |-> to, amount |-> amount]

\* ------------------------------------------------------------------- mint_to
\* What the router answers to generateRequest: a nonce, or a failed call.
RouterReplies == [ok : {TRUE}, nonce : Nonce] \cup [ok : {FALSE}, nonce : {0}]

\* The subscription argument taken from the wrong field.
generate_request_WrongSubscription ==
    [router |-> supra_router,
     function_sig |-> "mintRandomAmount(uint256,uint256[])",
     rng_count |-> 1,
     num_confirmations |-> 1,
     client_wallet_address |-> supra_router]

\* The arguments of router.generate_request(...), lines 159-165.
generate_request ==
    [router |-> supra_router,
     function_sig |-> "mintRandomAmount(uint256,uint256[])",
     rng_count |-> 1,
     num_confirmations |-> 1,
     client_wallet_address |-> subscription_manager]

\* A failed call taken for nonce 0 (unwrap_or_default in place of the match).
_request_randomness_IgnoreFailure(reply) ==
    [calls |-> <<[request |-> generate_request, reply |-> reply]>>,
     result |-> Ok,
     nonce |-> reply.nonce]

\* _request_randomness: one call to the router; its answer is passed on, a
\* failed call becomes RandomnessRequestFailed.
_request_randomness(reply) ==
    [calls |-> <<[request |-> generate_request, reply |-> reply]>>,
     result |-> IF reply.ok THEN Ok ELSE "RandomnessRequestFailed",
     nonce |-> reply.nonce]

\* The MintRequested log left out.
_mint_to_NoLog(to, reply) ==
    LET r == _request_randomness(reply)
    IN  /\ router_calls' = router_calls \o r.calls
        /\ lastCall' = Call("mint_to", ZERO, to, r.nonce, <<>>, r.result)
        /\ IF r.result = Ok
           THEN mint_address' = [mint_address EXCEPT ![r.nonce] = to]
           ELSE UNCHANGED mint_address
        /\ UNCHANGED <<subscription_manager, supra_router, balances,
                       total_supply, allowances, events>>

\* The receiver written to the router slot instead of the map.
_mint_to_SetsRouter(to, reply) ==
    LET r == _request_randomness(reply)
    IN  /\ router_calls' = router_calls \o r.calls
        /\ lastCall' = Call("mint_to", ZERO, to, r.nonce, <<>>, r.result)
        /\ IF r.result = Ok
           THEN /\ supra_router' = to
                /\ events' = Append(events, MintRequested(r.nonce, to))
           ELSE UNCHANGED <<supra_router, events>>
        /\ UNCHANGED <<subscription_manager, mint_address, balances,
                       total_supply, allowances>>

\* The first receiver of a nonce kept: the slot is written only when empty.
_mint_to_KeepsFirst(to, reply) ==
    LET r == _request_randomness(reply)
    IN  /\ router_calls' = router_calls \o r.calls
        /\ lastCall' = Call("mint_to", ZERO, to, r.nonce, <<>>, r.result)
        /\ IF r.result = Ok
           THEN /\ mint_address' = IF mint_address[r.nonce] = ZERO
                                   THEN [mint_address EXCEPT ![r.nonce] = to]
                                   ELSE mint_address
                /\ events' = Append(events, MintRequested(r.nonce, to))
           ELSE UNCHANGED <<mint_address, events>>
        /\ UNCHANGED <<subscription_manager, supra_router, balances,
                       total_supply, allowances>>

\* The receiver stored under the key 0 instead of the nonce.
_mint_to_WrongSlot(to, reply) ==
    LET r == _request_randomness(reply)
    IN  /\ router_calls' = router_calls \o r.calls
        /\ lastCall' = Call("mint_to", ZERO, to, r.nonce, <<>>, r.result)
        /\ IF r.result = Ok
           THEN /\ mint_address' = [mint_address EXCEPT ![0] = to]
                /\ events' = Append(events, MintRequested(r.nonce, to))
           ELSE UNCHANGED <<mint_address, events>>
        /\ UNCHANGED <<subscription_manager, supra_router, balances,
                       total_supply, allowances>>

\* One token minted to the receiver at request time, ahead of the callback.
_mint_to_MintsAtRequest(to, reply) ==
    LET r == _request_randomness(reply)
    IN  /\ router_calls' = router_calls \o r.calls
        /\ lastCall' = Call("mint_to", ZERO, to, r.nonce, <<>>, r.result)
        /\ IF r.result = Ok
           THEN /\ mint_address' = [mint_address EXCEPT ![r.nonce] = to]
                /\ events' = Append(events, MintRequested(r.nonce, to))
                /\ balances' = [balances EXCEPT ![to] = @ + 1]
                /\ total_supply' = total_supply + 1
           ELSE UNCHANGED <<mint_address, events, balances, total_supply>>
        /\ UNCHANGED <<subscription_manager, supra_router, allowances>>

\* _mint_to: request, then store nonce -> to, then log MintRequested.
_mint_to(to, reply) ==
    LET r == _request_randomness(reply)
    IN  /\ router_calls' = router_calls \o r.calls
        /\ lastCall' = Call("mint_to", ZERO, to, r.nonce, <<>>, r.result)
        /\ IF r.result = Ok
           THEN /\ mint_address' = [mint_address EXCEPT ![r.nonce] = to]
                /\ events' = Append(events, MintRequested(r.nonce, to))
           ELSE UNCHANGED <<mint_address, events>>
        /\ UNCHANGED <<subscription_manager, supra_router, balances,
                       total_supply, allowances>>

mint_to(limit) ==
    \E to \in Address, reply \in RouterReplies :
        /\ Len(router_calls) < limit
        /\ _mint_to(to, reply)

\* -------------------------------------------------------- mint_random_amount
\* Lines 138-139: mint_range, then (random_num % mint_range) + 1.  With
\* overflow-checks on, the u16 overflow panics; with them off the wrapped
\* range is used, and U256 % 0 panics.
mint_amount(random_num, overflow_checks) ==
    IF overflow_checks /\ mint_range.ovf
    THEN [result |-> PanicOverflow, amount |-> 0]
    ELSE IF mint_range.val = 0
    THEN [result |-> PanicDivZero, amount |-> 0]
    ELSE [result |-> Ok, amount |-> (random_num % mint_range.val) + 1]

\* erc20._mint(account, value): the zero address is refused, otherwise the
\* balance and the total supply grow by value (a total supply past U256::MAX
\* panics; the amounts here stay far below it).
Erc20_mint(account, value) ==
    IF account = ZERO
    THEN [result |-> "ERC20InvalidReceiver",
          balances |-> balances, total_supply |-> total_supply]
    ELSE [result |-> Ok,
          balances |-> [balances EXCEPT ![account] = @ + value],
          total_supply |-> total_supply + value]

\* The caller compared only after the list was indexed.
MintRandomAmountOutcome_CheckAfterIndex(caller, nonce, rng_list, overflow_checks) ==
    IF Len(rng_list) = 0
    THEN [result |-> PanicIndex, receiver |-> mint_address[nonce], amount |-> 0]
    ELSE IF caller # supra_router
    THEN [result |-> "OnlySupraRouter", receiver |-> ZERO, amount |-> 0]
    ELSE [result |-> mint_amount(rng_list[1], overflow_checks).result,
          receiver |-> mint_address[nonce], amount |-> 0]

\* The receiver taken from msg_sender instead of the map, with the range wide
\* enough for the remainder to be the raw value.
MintRandomAmountOutcome_MintsToCaller(caller, nonce, rng_list, overflow_checks) ==
    IF caller # supra_router
    THEN [result |-> "OnlySupraRouter", receiver |-> ZERO, amount |-> 0]
    ELSE IF Len(rng_list) = 0
    THEN [result |-> PanicIndex, receiver |-> caller, amount |-> 0]
    ELSE [result |-> Erc20_mint(caller, rng_list[1] + 1).result,
          receiver |-> caller, amount |-> rng_list[1] + 1]

\* What _mint_random_amount computes, in the order of its statements.
MintRandomAmountOutcome(caller, nonce, rng_list, overflow_checks) ==
    IF caller # supra_router
    THEN [result |-> "OnlySupraRouter", receiver |-> ZERO, amount |-> 0]
    ELSE LET receiver == mint_address[nonce]
         IN  IF Len(rng_list) = 0
             THEN [result |-> PanicIndex, receiver |-> receiver, amount |-> 0]
             ELSE LET a == mint_amount(rng_list[1], overflow_checks)
                  IN  IF a.result # Ok
                      THEN [result |-> a.result, receiver |-> receiver, amount |-> 0]
                      ELSE [result |-> Erc20_mint(receiver, a.amount).result,
                            receiver |-> receiver, amount |-> a.amount]

\* _mint_random_amount: the transaction commits only when the outcome is Ok.
_mint_random_amount(caller, nonce, rng_list, overflow_checks) ==
    LET o == MintRandomAmountOutcome(caller, nonce, rng_list, overflow_checks)
        m == Erc20_mint(o.receiver, o.amount)
    IN  /\ lastCall' = Call("mint_random_amount", caller, o.receiver, nonce,
                            rng_list, o.result)
        /\ IF o.result = Ok
           THEN /\ balances' = m.balances
                /\ total_supply' = m.total_supply
                /\ events' = Append(events, Minted(nonce, o.receiver, o.amount))
           ELSE UNCHANGED <<balances, total_supply, events>>
        /\ UNCHANGED <<subscription_manager, supra_router, mint_address,
                       allowances, router_calls>>

mint_random_amount ==
    \E caller \in Callers, nonce \in Nonce, rng_list \in RngLists,
       overflow_checks \in BOOLEAN :
        /\ Len(events) < MaxEvents
        /\ _mint_random_amount(caller, nonce, rng_list, overflow_checks)

\* -------------------------------------------------------------------- ERC-20
\* erc20._transfer(from, to, value) as an outcome.  (The values of Amounts are
\* far below U256::MAX, the allowance that is never spent.)
Erc20_transfer(from, to, value) ==
    IF from = ZERO THEN [result |-> "ERC20InvalidSender", balances |-> balances]
    ELSE IF to = ZERO THEN [result |-> "ERC20InvalidReceiver", balances |-> balances]
    ELSE IF balances[from] < value
    THEN [result |-> "ERC20InsufficientBalance", balances |-> balances]
    ELSE [result |-> Ok,
          balances |-> [a \in Address |->
                          balances[a] - (IF a = from THEN value ELSE 0)
                                      + (IF a = to THEN value ELSE 0)]]

transfer ==
    \E caller \in Callers, to \in Address, value \in Amounts :
        LET t == Erc20_transfer(caller, to, value)
        IN  /\ balances' = t.balances
            /\ lastCall' = Call("transfer", ZERO, ZERO, 0, <<>>, t.result)
            /\ UNCHANGED <<subscription_manager, supra_router, mint_address,
                           total_supply, allowances, events, router_calls>>

approve ==
    \E caller \in Callers, spender \in Address, value \in Amounts :
        LET result == IF spender = ZERO THEN "ERC20InvalidSpender" ELSE Ok
        IN  /\ allowances' = IF result = Ok
                             THEN [allowances EXCEPT ![caller][spender] = value]
                             ELSE allowances
            /\ lastCall' = Call("approve", ZERO, ZERO, 0, <<>>, result)
            /\ UNCHANGED <<subscription_manager, supra_router, mint_address,
                           balances, total_supply, events, router_calls>>

transfer_from ==
    \E caller \in Callers, from \in Address, to \in Address, value \in Amounts :
        LET t == Erc20_transfer(from, to, value)
            result == IF allowances[from][caller] < value
                      THEN "ERC20InsufficientAllowance" ELSE t.result
        IN  /\ balances' = IF result = Ok THEN t.balances ELSE balances
            /\ allowances' = IF result = Ok
                             THEN [allowances EXCEPT ![from][caller] = @ - value]
                             ELSE allowances
            /\ lastCall' = Call("transfer_from", ZERO, ZERO, 0, <<>>, result)
            /\ UNCHANGED <<subscription_manager, supra_router, mint_address,
                           total_supply, events, router_calls>>

\* total_supply, balance_of, allowance, name, symbol, decimals,
\* supports_interface: &self methods, no storage write.
view ==
    /\ lastCall' = Call("view", ZERO, ZERO, 0, <<>>, Ok)
    /\ UNCHANGED <<subscription_manager, supra_router, mint_address, balances,
                   total_supply, allowances, events, router_calls>>

\* The randomness protocol: the two entry points of the request/callback pair.
Next ==
    \/ mint_to(MaxCalls)
    \/ mint_random_amount

Spec == Init /\ [][Next]_vars

\* The whole contract: the protocol and the ERC-20 entry points.
NextToken ==
    \/ mint_to(MaxTokenCalls)
    \/ mint_random_amount
    \/ transfer
    \/ approve
    \/ transfer_from
    \/ view

SpecToken == Init /\ [][NextToken]_vars

\* ===================================================================== claims
Last(s) == s[Len(s)]
IsFulfil(c) == c.op = "mint_random_amount"
IsRequest(c) == c.op = "mint_to"
\* The Error enum of lines 47-58: what a caller can receive as a typed failure.
TypedErrors == {"ERC20InsufficientBalance", "ERC20InvalidSender", "ERC20InvalidReceiver",
                "ERC20InsufficientAllowance", "ERC20InvalidSpender",
                "ERC20InvalidApprover", "RandomnessRequestFailed", "OnlySupraRouter"}
Requested(n) == \E i \in DOMAIN events : events[i].name = "MintRequested" /\ events[i].nonce = n
MintedCount(evs, n) ==
    Cardinality({i \in DOMAIN evs : evs[i].name = "Minted" /\ evs[i].nonce = n})
\* derive(V) = (V mod RANGE_WIDTH) + 1 with RANGE_WIDTH = 1000 * 10^18: every
\* value of Raw is below RANGE_WIDTH, so the remainder is the value itself.
derive(v) == v + 1

\* C1: a fulfil from any caller other than the configured router returns
\* OnlySupraRouter and changes neither the pending-request store, nor a balance,
\* nor the total supply, nor the logs, whatever the handle and the list (the
\* empty list included: the caller is checked before the list is indexed).
C1_UntrustedFulfilRejected ==
    [][(IsFulfil(lastCall') /\ lastCall'.caller # supra_router)
       => /\ lastCall'.result = "OnlySupraRouter"
          /\ UNCHANGED <<storage, events, router_calls>>]_vars

\* C1 witness: an untrusted caller was turned away on a pending handle with the
\* empty list.
C1_Witness ==
    /\ IsFulfil(lastCall)
    /\ lastCall.caller # supra_router
    /\ lastCall.rng_list = <<>>
    /\ mint_address[lastCall.nonce] # ZERO
    /\ lastCall.result = "OnlySupraRouter"

\* C2 (as claimed): a fulfil by the router for a handle H recorded for R, with
\* first list element V, succeeds, adds derive(V) to R's balance and to the total
\* supply, changes no other balance and logs one Minted {H, R, derive(V)}.
C2_FulfilMintsDerived ==
    [][(/\ IsFulfil(lastCall')
        /\ lastCall'.caller = supra_router
        /\ Len(lastCall'.rng_list) >= 1
        /\ Requested(lastCall'.nonce)
        /\ mint_address[lastCall'.nonce] # ZERO)
       => LET h == lastCall'.nonce
              r == mint_address[h]
              d == derive(lastCall'.rng_list[1])
          IN  /\ lastCall'.result = Ok
              /\ balances' = [balances EXCEPT ![r] = @ + d]
              /\ total_supply' = total_supply + d
              /\ events' = Append(events, Minted(h, r, d))]_vars

\* C3: when the router's generateRequest fails, mint_to returns
\* RandomnessRequestFailed, the store and the logs are as before, and exactly one
\* request was issued (no retry).
C3_FailedRequestIsAtomic ==
    [][(Len(router_calls') > Len(router_calls) /\ ~Last(router_calls').reply.ok)
       => /\ IsRequest(lastCall')
          /\ lastCall'.result = "RandomnessRequestFailed"
          /\ Len(router_calls') = Len(router_calls) + 1
          /\ UNCHANGED <<storage, events>>]_vars

\* C3 witness: a request failed while handle 0 was pending for another receiver.
C3_Witness ==
    /\ IsRequest(lastCall)
    /\ lastCall.result = "RandomnessRequestFailed"
    /\ ~Last(router_calls).reply.ok
    /\ mint_address[0] # ZERO
    /\ mint_address[0] # lastCall.to

\* C4 (as claimed): whatever raw value the router delivers, the fulfil mints an
\* amount of at least 1 and at most RANGE_WIDTH = 1000 * 10^18 (the range is
\* computed without wrapping), and the raw value 0 gives the amount 1.
C4_MintedAmountInRange ==
    (/\ IsFulfil(lastCall)
     /\ lastCall.caller = supra_router
     /\ Len(lastCall.rng_list) >= 1
     /\ lastCall.to # ZERO)
    => /\ lastCall.result = Ok
       /\ ~mint_range.ovf
       /\ events # <<>>
       /\ Last(events).name = "Minted"
       /\ Last(events).amount >= 1
       /\ (lastCall.rng_list[1] = 0 => Last(events).amount = 1)

\* C5 (as claimed): the mint for a handle is applied exactly once.  A fulfil by
\* the router for a pending handle, with a value in the list, mints when the
\* handle has no Minted log yet, and mints nothing more when it has one.
C5_MintAppliedExactlyOnce ==
    [][(/\ IsFulfil(lastCall')
        /\ lastCall'.caller = supra_router
        /\ Len(lastCall'.rng_list) >= 1
        /\ Requested(lastCall'.nonce)
        /\ mint_address[lastCall'.nonce] # ZERO)
       => MintedCount(events', lastCall'.nonce) = 1]_vars

\* C6 (as claimed): a fulfil by the router for a handle that no successful
\* mint_to recorded ends in a typed error and changes nothing.
C6_UnknownHandleRejected ==
    [][(/\ IsFulfil(lastCall')
        /\ lastCall'.caller = supra_router
        /\ ~Requested(lastCall'.nonce))
       => /\ lastCall'.result \in TypedErrors
          /\ UNCHANGED <<storage, events>>]_vars

\* C7: a successful mint_to appends exactly one MintRequested {nonce, to}, a
\* successful mint_random_amount appends exactly one Minted {nonce, to, amount},
\* and a transaction that fails appends nothing.
C7_OneSignalPerSuccess ==
    [][/\ (IsRequest(lastCall') /\ lastCall'.result = Ok)
          => events' = Append(events, MintRequested(lastCall'.nonce, lastCall'.to))
       /\ (IsFulfil(lastCall') /\ lastCall'.result = Ok)
          => /\ Len(events') = Len(events) + 1
             /\ SubSeq(events', 1, Len(events)) = events
             /\ Last(events').name = "Minted"
             /\ Last(events').nonce = lastCall'.nonce
             /\ Last(events').to = lastCall'.to
       /\ lastCall'.result # Ok => events' = events]_vars

\* C7 witness: two requests were answered and logged, then a fulfil failed and
\* the log still holds exactly the two MintRequested entries.
C7_Witness ==
    /\ IsFulfil(lastCall)
    /\ lastCall.result # Ok
    /\ Len(router_calls) = 2
    /\ \A i \in 1..2 : router_calls[i].reply.ok
    /\ Len(events) = 2
    /\ \A i \in 1..2 : events[i].name = "MintRequested"

\* C8 (as claimed): the store holds a receiver for a handle exactly when a
\* mint_to for that handle has succeeded and no fulfil for it has.
C8_PendingIffRequestedUnfulfilled ==
    \A n \in Nonce :
        (mint_address[n] # ZERO) <=> (Requested(n) /\ MintedCount(events, n) = 0)

\* C9: a successful mint_to issues exactly one generateRequest, to the router,
\* with the callback's signature, one random value wanted, one confirmation and
\* the configured subscription; it stores the receiver under the nonce the router
\* returned and under no other, logs MintRequested {nonce, to}, and leaves the
\* balances, the total supply and the allowances alone.
C9_RequestRecordsHandle ==
    [][(IsRequest(lastCall') /\ lastCall'.result = Ok)
       => /\ Len(router_calls') = Len(router_calls) + 1
          /\ SubSeq(router_calls', 1, Len(router_calls)) = router_calls
          /\ Last(router_calls').request =
                [router |-> supra_router,
                 function_sig |-> CallbackSignature,
                 rng_count |-> 1,
                 num_confirmations |-> 1,
                 client_wallet_address |-> subscription_manager]
          /\ Last(router_calls').reply = [ok |-> TRUE, nonce |-> lastCall'.nonce]
          /\ mint_address' = [mint_address EXCEPT ![lastCall'.nonce] = lastCall'.to]
          /\ events' = Append(events, MintRequested(lastCall'.nonce, lastCall'.to))
          /\ UNCHANGED <<balances, total_supply, allowances,
                         subscription_manager, supra_router>>]_vars

\* C9 witness: handle 1 was recorded while handle 0 keeps another receiver.
C9_Witness ==
    /\ IsRequest(lastCall)
    /\ lastCall.result = Ok
    /\ lastCall.nonce = 1
    /\ lastCall.to # ZERO
    /\ mint_address[1] = lastCall.to
    /\ mint_address[0] # ZERO
    /\ mint_address[0] # mint_address[1]
    /\ Len(router_calls) = 2

\* C10: the router identity and the subscription are the constructor's
\* arguments in every state, whatever entry points have run since.
C10_ConfigurationImmutable ==
    /\ supra_router = SupraRouter
    /\ subscription_manager = SubscriptionManager

\* C10 witness: a request was recorded, an allowance was granted and a
\* transfer_from went through, and the configuration is the constructor's.
C10_Witness ==
    /\ lastCall.op = "transfer_from"
    /\ lastCall.result = Ok
    /\ events # <<>>
    /\ \E o \in Address, sp \in Address : allowances[o][sp] > 0
    /\ supra_router = SupraRouter
    /\ subscription_manager = SubscriptionManager

\* C11 (as claimed): the derivation never faults.  With a value in the list, a
\* fulfil by the router computes the range 1000 * 10^18 without overflow or
\* wrap-around, the range is not zero, and neither the multiplication nor the
\* remainder panics.
C11_DerivationNeverFaults ==
    (/\ IsFulfil(lastCall)
     /\ lastCall.caller = supra_router
     /\ Len(lastCall.rng_list) >= 1)
    => /\ lastCall.result \notin {PanicOverflow, PanicDivZero}
       /\ ~PowU16(RangeBase, RangeDecimals).ovf
       /\ ~mint_range.ovf
       /\ mint_range.val # 0

\* C12 (as claimed): a mint_to whose router call returns a nonce that already
\* maps to a receiver fails with DuplicateHandle and leaves the earlier
\* receiver in place.
C12_DuplicateHandleRefused ==
    [][(/\ IsRequest(lastCall')
        /\ Len(router_calls') > Len(router_calls)
        /\ Last(router_calls').reply.ok
        /\ mint_address[Last(router_calls').reply.nonce] # ZERO)
       => /\ lastCall'.result = "DuplicateHandle"
          /\ mint_address' = mint_address]_vars

\* C12 (amended): such a mint_to succeeds, replaces the earlier receiver by the
\* new one and logs MintRequested; no error is raised for the repeated nonce.
C12_DuplicateHandleOverwrites ==
    [][(/\ IsRequest(lastCall')
        /\ Len(router_calls') > Len(router_calls)
        /\ Last(router_calls').reply.ok
        /\ mint_address[Last(router_calls').reply.nonce] # ZERO)
       => LET n == Last(router_calls').reply.nonce
          IN  /\ lastCall'.result = Ok
              /\ mint_address'[n] = lastCall'.to
              /\ Last(events') = MintRequested(n, lastCall'.to)]_vars

\* C12 witness: the router returned nonce 0 twice, for two receivers, and the
\* store holds the second.
C12_Witness ==
    /\ IsRequest(lastCall)
    /\ lastCall.result = Ok
    /\ Len(events) = 2
    /\ events[1].name = "MintRequested" /\ events[2].name = "MintRequested"
    /\ events[1].nonce = events[2].nonce
    /\ events[1].to # ZERO /\ events[2].to # ZERO
    /\ events[1].to # events[2].to
    /\ mint_address[events[2].nonce] = events[2].to

\* C13: requests on distinct handles do not interfere.  A mint_to or a fulfil
\* on one nonce leaves the store entry of every other nonce as it was, and a
\* fulfil that succeeds changes the balance of the receiver recorded under its
\* own nonce and of nobody else.
C13_DistinctHandlesIndependent ==
    [][(IsRequest(lastCall') \/ IsFulfil(lastCall'))
       => /\ \A h \in Nonce :
                h # lastCall'.nonce => mint_address'[h] = mint_address[h]
          /\ (IsFulfil(lastCall') /\ lastCall'.result = Ok)
             => /\ lastCall'.to = mint_address[lastCall'.nonce]
                /\ \A a \in Address :
                      a # mint_address[lastCall'.nonce] => balances'[a] = balances[a]
          /\ ~(IsFulfil(lastCall') /\ lastCall'.result = Ok)
             => balances' = balances]_vars

\* C13 witness: nonce 0 and nonce 1 are pending for two receivers, nonce 1 was
\* recorded after nonce 0, and the router's callback for nonce 1 has run.
C13_Witness ==
    /\ IsFulfil(lastCall)
    /\ lastCall.caller = supra_router
    /\ lastCall.nonce = 1
    /\ Len(lastCall.rng_list) >= 1
    /\ Len(events) = 2
    /\ events[1] = MintRequested(0, mint_address[0])
    /\ events[2] = MintRequested(1, mint_address[1])
    /\ mint_address[0] # ZERO /\ mint_address[1] # ZERO
    /\ mint_address[0] # mint_address[1]

C15_FailuresAreTypedAndAtomic ==
    [][((IsRequest(lastCall') \/ IsFulfil(lastCall')) /\ lastCall'.result # Ok)
       => /\ lastCall'.result \in TypedErrors
          /\ ~IsPanic(lastCall'.result)
          /\ UNCHANGED <<storage, events>>]_vars

\* ------------------------------------------------------- the router delivers
\* The assumption made of the oracle: for a nonce it handed out, the router
\* calls mint_random_amount back with a list of one value.
OracleDelivers(nonce) ==
    \E v \in Raw, overflow_checks \in BOOLEAN :
        /\ Requested(nonce)
        /\ Len(events) < MaxEvents
        /\ _mint_random_amount(supra_router, nonce, <<v>>, overflow_checks)

FairSpec == Spec /\ \A n \in Nonce : WF_vars(OracleDelivers(n))

\* C16 (as claimed): when the router keeps delivering, every nonce recorded by
\* a successful mint_to is eventually minted: a Minted log for it appears.
C16_RequestEventuallyMinted ==
    \A n \in Nonce : Requested(n) ~> (MintedCount(events, n) >= 1)

RECURSIVE SumMinted(_)
SumMinted(evs) ==
    IF evs = <<>> THEN 0
    ELSE (IF Last(evs).name = "Minted" THEN Last(evs).amount ELSE 0)
         + SumMinted(SubSeq(evs, 1, Len(evs) - 1))
RECURSIVE SumOver(_, _)
SumOver(f, S) ==
    IF S = {} THEN 0
    ELSE LET a == CHOOSE x \in S : TRUE IN f[a] + SumOver(f, S \ {a})

\* C17: after every transaction the total supply is the sum of the amounts of
\* the Minted logs and the sum of the balances, and a transaction changes it
\* only when it is a successful mint_random_amount from the router.
C17_SupplyIsMintedSum ==
    [][/\ total_supply' = SumMinted(events')
       /\ total_supply' = SumOver(balances', Address)
       /\ total_supply' # total_supply
          => /\ IsFulfil(lastCall')
             /\ lastCall'.caller = supra_router
             /\ lastCall'.result = Ok]_vars

\* C17 witness: a request was recorded, then a transfer went through, and the
\* supply still equals both sums.
C17_Witness ==
    /\ lastCall.op = "transfer"
    /\ lastCall.result = Ok
    /\ \E h \in Nonce : Requested(h) /\ mint_address[h] # ZERO
    /\ total_supply = SumMinted(events)
    /\ total_supply = SumOver(balances, Address)
====
